---- MODULE Spec2Model ----
(***************************************************************************)
(* Model of the SQLite migration runner app/db/init_db.py.                 *)
(*                                                                         *)
(* The store is one SQLite database file; the change-set source is a       *)
(* directory of files.  A run is one process executing main().  The        *)
(* sqlite3 module is used with its default (legacy) transaction control:   *)
(*   - DDL and PRAGMA statements passed to execute() run in SQLite         *)
(*     autocommit mode and are durable as soon as they return;             *)
(*   - executescript() first commits a pending transaction and then runs   *)
(*     the script's statements one by one in autocommit mode (no implicit  *)
(*     BEGIN is issued), stopping at the first statement that fails;       *)
(*   - execute("INSERT ...") opens an implicit transaction that stays      *)
(*     open until commit(); close() or a process death rolls it back.      *)
(*                                                                         *)
(* A file name is the sequence of its character codes, a script is the     *)
(* sequence of its statements.  A statement is one of                      *)
(*   "insert"  succeeds every time it is executed (INSERT, CREATE IF NOT   *)
(*             EXISTS, ...),                                               *)
(*   "create"  succeeds once and fails when its object already exists      *)
(*             (CREATE TABLE t ...),                                       *)
(*   "error"   always fails (invalid SQL).                                 *)
(* Scripts carry no transaction control statements of their own.           *)
(***************************************************************************)
EXTENDS Integers, Sequences, FiniteSets, TLC

\* ---------------------------------------------------------------- bounds
\* runs started, writes to the migrations directory, latest clock reading
MaxRuns == 2
MaxWrites == 2
MaxClock == 1
MaxQty == 2
MaxOpened == 2
MaxCloses == 1

\* ------------------------------------------------------- input universes
\* runner processes; under Spec the runs are sequential and all are made
\* by the runners of SeqRunners, one process after the other
Runners == {1, 2}
SeqRunners == {1}

\* threads of the process that imports dao
Threads == {1, 2}

\* card ids used with the collection
Cards == {1, 2}

\* quantities and deltas passed to the collection functions
QtyArgs == (0 - MaxQty)..MaxQty

\* file names "B.SQL", "a.sql", "c.sql", "d.txt" as character codes
F_B_SQL == <<66, 46, 83, 81, 76>>
F_a_sql == <<97, 46, 115, 113, 108>>
F_c_sql == <<99, 46, 115, 113, 108>>
F_d_txt == <<100, 46, 116, 120, 116>>
Names == {F_B_SQL, F_a_sql, F_c_sql, F_d_txt}
\* the files that come and go; F_d_txt is a stray file that stays
Migrations == {F_B_SQL, F_a_sql, F_c_sql}

\* content of a file: no such file, or its script
Absent == <<"absent">>
ValidScript == <<"insert", "create", "insert">>
BrokenScript == <<"insert", "create", "error">>
Scripts == {ValidScript, BrokenScript}
StmtPos == UNION {DOMAIN sc : sc \in Scripts}

\* ------------------------------------------------------ pure functions
\* hashlib.sha256(sql_text).hexdigest(): a deterministic digest of the
\* content, taken to be collision free on the scripts considered.
StmtCode(st) == CASE st = "insert" -> 1 [] st = "create" -> 2 [] OTHER -> 3

RECURSIVE compute_checksum(_)
compute_checksum(sql_text) ==
    IF sql_text = <<>> THEN 1
    ELSE compute_checksum(SubSeq(sql_text, 1, Len(sql_text) - 1)) * 4
         + StmtCode(sql_text[Len(sql_text)])

\* str.lower() on one character code
Lower(c) == IF c >= 65 /\ c <= 90 THEN c + 32 ELSE c

\* a suffix test that minds the case
IsSqlFile_CaseSensitive(f) ==
    /\ Len(f) >= 4
    /\ [i \in 1..4 |-> f[Len(f) - 4 + i]] = <<46, 115, 113, 108>>

\* f.lower().endswith(".sql")
IsSqlFile(f) ==
    /\ Len(f) >= 4
    /\ [i \in 1..4 |-> Lower(f[Len(f) - 4 + i])] = <<46, 115, 113, 108>>

\* str.__lt__: code point order, a proper prefix sorts first
RECURSIVE LexLess(_, _)
LexLess(a, b) ==
    IF b = <<>> THEN FALSE
    ELSE IF a = <<>> THEN TRUE
    ELSE IF Head(a) # Head(b) THEN Head(a) < Head(b)
    ELSE LexLess(Tail(a), Tail(b))

\* list.sort() of a set of distinct names
RECURSIVE SortFiles(_)
SortFiles(S) ==
    IF S = {} THEN <<>>
    ELSE LET m == CHOOSE x \in S : \A y \in S \ {x} : LexLess(x, y)
         IN  <<m>> \o SortFiles(S \ {m})

\* a listing in descending order
ListSqlFiles_Descending(d) ==
    LET asc == SortFiles({f \in Names : d[f] # Absent /\ IsSqlFile(f)})
    IN  [i \in DOMAIN asc |-> asc[Len(asc) + 1 - i]]

\* the names os.listdir returns, filtered and sorted (iter_sql_files)
ListSqlFiles(d) == SortFiles({f \in Names : d[f] # Absent /\ IsSqlFile(f)})

\* a ledger read that returns nothing
get_applied_Nothing(rows) == [id \in {} |-> <<>>]

\* {r[0]: (r[1], r[2]) for r in rows}
get_applied(rows) ==
    [id \in {rows[i].id : i \in DOMAIN rows} |->
        LET i == CHOOSE j \in DOMAIN rows : rows[j].id = id
        IN  <<rows[i].checksum, rows[i].applied_at>>]

LedgerIds(rows) == {rows[i].id : i \in DOMAIN rows}

\* ---------------------------------------------------------------- state
VARIABLES
    dir,          \* migrations directory: file name -> script or Absent
    journalMode,  \* persistent journal mode of the database file
    probeObj,     \* TRUE iff table __fts5_check exists
    hasLedger,    \* TRUE iff table schema_migrations exists
    ledger,       \* committed rows of schema_migrations, insertion order
    effects,      \* committed executions of each statement of each file
    clock,        \* wall clock, seconds
    proc,         \* per runner: position and locals of main()
    prev,         \* summary of the run that ended last
    gap,          \* what was written to the directory since the last run
    runs,         \* number of runs started
    writes,       \* number of writes to the directory
    _conn,        \* dao: the module global, 0 for None, else a handle
    opened,       \* dao: number of connections sqlite3.connect() returned
    closes,       \* dao: number of close() calls that closed a connection
    returned,     \* dao: the values init() calls have returned
    thr,          \* dao: per thread, position in init() and its local conn
    uniq_items_card,   \* dao: TRUE iff the unique index on card_id exists
    collection_items   \* dao: rows of the table, one record per row

migVars == <<dir, journalMode, probeObj, hasLedger, ledger, effects, clock,
             proc, prev, gap, runs, writes>>

daoVars == <<_conn, opened, closes, returned, thr, uniq_items_card,
             collection_items>>

vars == <<migVars, daoVars>>

\* the database file as a whole
store ==
    [journalMode |-> journalMode, probeObj |-> probeObj,
     hasLedger |-> hasLedger, ledger |-> ledger, effects |-> effects]

NoRun == [mode |-> "none", outcome |-> "none", failed |-> <<>>]

IdleProc ==
    [pc |-> "idle", dry_run |-> FALSE, conn |-> "none", txn |-> <<>>,
     applied |-> <<>>, files |-> <<>>, pending |-> <<>>, k |-> 0, s |-> 0,
     attempted |-> <<>>, report |-> <<>>, outcome |-> "none", exit |-> 0,
     failed |-> <<>>, prev |-> NoRun, gap |-> "clean",
     store0 |-> <<>>, storeK |-> <<>>]
\* store0, storeK: the store when the run started and when the current
\* apply_migration call started; prev, gap: copies taken when the run
\* started; attempted: the ids apply_migration was called for

\* dao.py as imported: no connection, an empty collection
DaoInit ==
    /\ _conn = 0
    /\ opened = 0
    /\ closes = 0
    /\ returned = {}
    /\ thr = [t \in Threads |-> [pc |-> "idle", conn |-> 0]]
    /\ uniq_items_card = FALSE
    /\ collection_items = <<>>

Init ==
    /\ dir \in [Names -> Scripts \cup {Absent}]
    /\ dir[F_d_txt] = BrokenScript
    /\ journalMode = "delete"
    /\ probeObj = FALSE
    /\ hasLedger = FALSE
    /\ ledger = <<>>
    /\ effects = [n \in Names |-> [i \in StmtPos |-> 0]]
    /\ clock = 0
    /\ proc = [r \in Runners |-> IdleProc]
    /\ prev = NoRun
    /\ gap = "clean"
    /\ runs = 0
    /\ writes = 0
    /\ DaoInit

Active(r) == proc[r].pc \notin {"idle", "done"}

Summary(p) ==
    [mode |-> IF p.dry_run THEN "dry" ELSE "apply", outcome |-> p.outcome,
     failed |-> p.failed]

\* what is left of a process that has ended: its exit status
Ended(p, what, code) ==
    [IdleProc EXCEPT !.pc = "done", !.conn = "closed", !.outcome = what,
                     !.exit = code, !.dry_run = p.dry_run]

\* an exception (or sys.exit) leaves the try block for the finally clause
Raise(p, what, code) ==
    [p EXCEPT !.pc = "finally", !.outcome = what, !.exit = code]

\* another connection holds SQLite's write lock: it has inserted a ledger
\* row and not yet committed; a writer waits for it (busy timeout)
WriteLocked(r) == \E q \in Runners \ {r} : proc[q].txn # <<>>

\* ------------------------------------------------------------- actions
\* a new process enters main(): parse_args, makedirs, sqlite3.connect
StartRun(r) ==
    /\ proc[r].pc \in {"idle", "done"}
    /\ \A q \in Runners \ {r} : ~Active(q)
    /\ runs < MaxRuns
    /\ \E d \in BOOLEAN :
          proc' = [proc EXCEPT ![r] =
                     [IdleProc EXCEPT !.pc = "pragmas", !.dry_run = d,
                                      !.conn = "open", !.prev = prev,
                                      !.gap = gap, !.store0 = store,
                                      !.outcome = "running"]]
    /\ gap' = "clean"
    /\ runs' = runs + 1
    /\ UNCHANGED <<daoVars, dir, journalMode, probeObj, hasLedger, ledger, effects,
                   clock, prev, writes>>

set_performance_pragmas(r) ==
    /\ proc[r].pc = "pragmas"
    /\ journalMode' = "wal"
    /\ proc' = [proc EXCEPT ![r].pc = "probe_create"]
    /\ UNCHANGED <<daoVars, dir, probeObj, hasLedger, ledger, effects, clock, prev,
                   gap, runs, writes>>

\* CREATE VIRTUAL TABLE IF NOT EXISTS __fts5_check USING fts5(x)
ProbeCreate(r) ==
    /\ proc[r].pc = "probe_create"
    /\ ~WriteLocked(r)
    /\ \E available \in BOOLEAN :
          IF available
          THEN /\ probeObj' = TRUE
               /\ proc' = [proc EXCEPT ![r].pc = "probe_drop"]
          ELSE /\ probeObj' = probeObj
               /\ proc' = [proc EXCEPT ![r] =
                             Raise(@, "capability_missing", 1)]
    /\ UNCHANGED <<daoVars, dir, journalMode, hasLedger, ledger, effects, clock, prev,
                   gap, runs, writes>>

\* a probe that leaves its table behind
ProbeDrop_Skipped(r) ==
    /\ proc[r].pc = "probe_drop"
    /\ proc' = [proc EXCEPT ![r].pc = "ensure"]
    /\ UNCHANGED <<daoVars, dir, journalMode, probeObj, hasLedger, ledger, effects,
                   clock, prev, gap, runs, writes>>

\* DROP TABLE __fts5_check; when another process has dropped the table
\* in between, the OperationalError is reported as a missing capability
ProbeDrop(r) ==
    /\ proc[r].pc = "probe_drop"
    /\ ~WriteLocked(r)
    /\ probeObj' = FALSE
    /\ proc' = [proc EXCEPT ![r] =
                  IF probeObj THEN [@ EXCEPT !.pc = "ensure"]
                  ELSE Raise(@, "capability_missing", 1)]
    /\ UNCHANGED <<daoVars, dir, journalMode, hasLedger, ledger, effects, clock, prev,
                   gap, runs, writes>>

\* CREATE TABLE IF NOT EXISTS schema_migrations; commit
ensure_schema_migrations(r) ==
    /\ proc[r].pc = "ensure"
    /\ hasLedger' = TRUE
    /\ ledger' = ledger \o proc[r].txn
    /\ proc' = [proc EXCEPT ![r].pc = "get_applied", ![r].txn = <<>>]
    /\ UNCHANGED <<daoVars, dir, journalMode, probeObj, effects, clock, prev, gap,
                   runs, writes>>

\* applied = get_applied(conn); pending = []
GetApplied(r) ==
    /\ proc[r].pc = "get_applied"
    /\ proc' = [proc EXCEPT ![r].pc = "iter",
                            ![r].applied = get_applied(ledger),
                            ![r].pending = <<>>]
    /\ UNCHANGED <<daoVars, dir, journalMode, probeObj, hasLedger, ledger, effects,
                   clock, prev, gap, runs, writes>>

\* first step of the generator: listdir, filter, sort
iter_sql_files(r) ==
    /\ proc[r].pc = "iter"
    /\ proc' = [proc EXCEPT ![r].pc = "classify",
                            ![r].files = ListSqlFiles(dir),
                            ![r].k = 1]
    /\ UNCHANGED <<daoVars, dir, journalMode, probeObj, hasLedger, ledger, effects,
                   clock, prev, gap, runs, writes>>

\* a classification that takes a changed fingerprint for an applied file
Classified_NoDriftCheck(p, mig_id, sql_text) ==
    IF mig_id \in DOMAIN p.applied
    THEN [p EXCEPT !.k = p.k + 1]
    ELSE [p EXCEPT !.k = p.k + 1,
                   !.pending = Append(p.pending, <<mig_id, sql_text>>)]

\* a classification that refuses a new file sorting before an applied one
Classified_RejectsOutOfOrder(p, mig_id, sql_text) ==
    IF mig_id \in DOMAIN p.applied
    THEN IF p.applied[mig_id][1] # compute_checksum(sql_text)
         THEN [Raise(p, "drift", 1) EXCEPT !.failed = mig_id]
         ELSE [p EXCEPT !.k = p.k + 1]
    ELSE IF \E a \in DOMAIN p.applied : LexLess(mig_id, a)
    THEN [Raise(p, "drift", 1) EXCEPT !.failed = mig_id]
    ELSE [p EXCEPT !.k = p.k + 1,
                   !.pending = Append(p.pending, <<mig_id, sql_text>>)]

\* the body of the classification loop for one file: drift exits, an
\* applied file is skipped, an unknown one is appended to pending
Classified(p, mig_id, sql_text) ==
    LET checksum == compute_checksum(sql_text)
    IN  IF mig_id \in DOMAIN p.applied
        THEN IF p.applied[mig_id][1] # checksum
             THEN [Raise(p, "drift", 1) EXCEPT !.failed = mig_id]
             ELSE [p EXCEPT !.k = p.k + 1]
        ELSE [p EXCEPT !.k = p.k + 1,
                       !.pending = Append(p.pending, <<mig_id, sql_text>>)]

\* one iteration of the classification loop
Classify(r) ==
    /\ proc[r].pc = "classify"
    /\ proc[r].k <= Len(proc[r].files)
    /\ LET p == proc[r]
           mig_id == p.files[p.k]
       IN  proc' = [proc EXCEPT ![r] = Classified(p, mig_id, dir[mig_id])]
    /\ UNCHANGED <<daoVars, dir, journalMode, probeObj, hasLedger, ledger, effects,
                   clock, prev, gap, runs, writes>>

\* the ids of a list of (id, sql_text) pairs
Ids(pending) == [i \in DOMAIN pending |-> pending[i][1]]

\* a plan step that goes on to apply in report-only mode
Planned_IgnoresDryRun(p) ==
    IF p.pending = <<>>
    THEN [p EXCEPT !.pc = "finally", !.outcome = "noop", !.exit = 0]
    ELSE [p EXCEPT !.pc = "script", !.k = 1, !.report = Ids(p.pending)]

\* after the loop: no-op return, plan report, dry-run return
Planned(p) ==
    IF p.pending = <<>>
    THEN [p EXCEPT !.pc = "finally", !.outcome = "noop", !.exit = 0]
    ELSE IF p.dry_run
    THEN [p EXCEPT !.pc = "finally", !.outcome = "dryrun", !.exit = 0,
                   !.report = Ids(p.pending)]
    ELSE [p EXCEPT !.pc = "script", !.k = 1, !.report = Ids(p.pending)]

Plan(r) ==
    /\ proc[r].pc = "classify"
    /\ proc[r].k > Len(proc[r].files)
    /\ proc' = [proc EXCEPT ![r] = Planned(@)]
    /\ UNCHANGED <<daoVars, dir, journalMode, probeObj, hasLedger, ledger, effects,
                   clock, prev, gap, runs, writes>>

\* apply_migration is entered: executescript commits a pending transaction
\* and starts on the script
ExecuteScript(r) ==
    /\ proc[r].pc = "script"
    /\ proc[r].k <= Len(proc[r].pending)
    /\ ledger' = ledger \o proc[r].txn
    /\ proc' = [proc EXCEPT ![r].pc = "stmt", ![r].s = 1, ![r].txn = <<>>,
                            ![r].attempted =
                                Append(@, proc[r].pending[proc[r].k][1]),
                            ![r].storeK = store]
    /\ UNCHANGED <<daoVars, dir, journalMode, probeObj, hasLedger, effects, clock,
                   prev, gap, runs, writes>>

\* a statement the script's object already rules out, or invalid SQL
StmtFails(st, done) == st = "error" \/ (st = "create" /\ done > 0)

\* one statement of the script, in autocommit mode
ExecStmt(r) ==
    /\ proc[r].pc = "stmt"
    /\ proc[r].s <= Len(proc[r].pending[proc[r].k][2])
    /\ ~WriteLocked(r)
    /\ LET p == proc[r]
           mig_id == p.pending[p.k][1]
           st == p.pending[p.k][2][p.s]
       IN  IF StmtFails(st, effects[mig_id][p.s])
           THEN /\ effects' = effects
                /\ proc' = [proc EXCEPT ![r] =
                      [Raise(p, "exec_failure", 1) EXCEPT !.failed = mig_id]]
           ELSE /\ effects' = [effects EXCEPT ![mig_id][p.s] = @ + 1]
                /\ proc' = [proc EXCEPT ![r].s = p.s + 1]
    /\ UNCHANGED <<daoVars, dir, journalMode, probeObj, hasLedger, ledger, clock,
                   prev, gap, runs, writes>>

\* a ledger without its primary key: the row is appended whatever it holds
InsertLedger_NoPrimaryKey(r) ==
    /\ proc[r].pc = "stmt"
    /\ proc[r].s > Len(proc[r].pending[proc[r].k][2])
    /\ ~WriteLocked(r)
    /\ \E now \in clock..MaxClock :
          LET p == proc[r]
              row == [id |-> p.pending[p.k][1],
                      checksum |-> compute_checksum(p.pending[p.k][2]),
                      applied_at |-> now]
          IN  /\ clock' = now
              /\ proc' = [proc EXCEPT ![r].pc = "commit", ![r].txn = <<row>>]
    /\ UNCHANGED <<daoVars, dir, journalMode, probeObj, hasLedger, ledger, effects,
                   prev, gap, runs, writes>>

\* an INSERT OR IGNORE: a row whose id is present is dropped in silence
InsertLedger_OrIgnore(r) ==
    /\ proc[r].pc = "stmt"
    /\ proc[r].s > Len(proc[r].pending[proc[r].k][2])
    /\ ~WriteLocked(r)
    /\ \E now \in clock..MaxClock :
          LET p == proc[r]
              mig_id == p.pending[p.k][1]
              row == [id |-> mig_id,
                      checksum |-> compute_checksum(p.pending[p.k][2]),
                      applied_at |-> now]
          IN  /\ clock' = now
              /\ proc' = [proc EXCEPT ![r].pc = "commit",
                            ![r].txn = IF mig_id \in LedgerIds(ledger)
                                       THEN <<>> ELSE <<row>>]
    /\ UNCHANGED <<daoVars, dir, journalMode, probeObj, hasLedger, ledger, effects,
                   prev, gap, runs, writes>>

\* INSERT INTO schema_migrations ...: reads the wall clock, which has moved
\* on by some amount since it was last read, and opens the implicit
\* transaction
InsertLedger(r) ==
    /\ proc[r].pc = "stmt"
    /\ proc[r].s > Len(proc[r].pending[proc[r].k][2])
    /\ ~WriteLocked(r)
    /\ \E now \in clock..MaxClock :
          LET p == proc[r]
              mig_id == p.pending[p.k][1]
              row == [id |-> mig_id,
                      checksum |-> compute_checksum(p.pending[p.k][2]),
                      applied_at |-> now]
          IN  /\ clock' = now
              /\ proc' = [proc EXCEPT ![r] =
                    IF mig_id \in LedgerIds(ledger)
                    THEN [Raise(p, "duplicate_key", 1)
                            EXCEPT !.failed = mig_id]
                    ELSE [p EXCEPT !.pc = "commit", !.txn = <<row>>]]
    /\ UNCHANGED <<daoVars, dir, journalMode, probeObj, hasLedger, ledger, effects,
                   prev, gap, runs, writes>>

\* a commit that loses the ledger row
Commit_Lost(r) ==
    /\ proc[r].pc = "commit"
    /\ proc' = [proc EXCEPT ![r].pc = "script", ![r].txn = <<>>,
                            ![r].k = @ + 1]
    /\ UNCHANGED <<daoVars, dir, journalMode, probeObj, hasLedger, ledger, effects,
                   clock, prev, gap, runs, writes>>

\* conn.commit() at the end of apply_migration
Commit(r) ==
    /\ proc[r].pc = "commit"
    /\ ledger' = ledger \o proc[r].txn
    /\ proc' = [proc EXCEPT ![r].pc = "script", ![r].txn = <<>>,
                            ![r].k = @ + 1]
    /\ UNCHANGED <<daoVars, dir, journalMode, probeObj, hasLedger, effects, clock,
                   prev, gap, runs, writes>>

\* the apply loop is exhausted: "Migrations applied successfully."
Success(r) ==
    /\ proc[r].pc = "script"
    /\ proc[r].k > Len(proc[r].pending)
    /\ proc' = [proc EXCEPT ![r].pc = "finally", ![r].outcome = "applied",
                            ![r].exit = 0]
    /\ UNCHANGED <<daoVars, dir, journalMode, probeObj, hasLedger, ledger, effects,
                   clock, prev, gap, runs, writes>>

\* an exit that forgets the connection
Finally_NoClose(r) ==
    /\ proc[r].pc = "finally"
    /\ proc' = [proc EXCEPT ![r] =
                  [Ended(@, @.outcome, @.exit) EXCEPT !.conn = "open"]]
    /\ prev' = Summary(proc[r])
    /\ UNCHANGED <<daoVars, dir, journalMode, probeObj, hasLedger, ledger, effects,
                   clock, gap, runs, writes>>

\* finally: conn.close() rolls back an open transaction; the process exits
Finally(r) ==
    /\ proc[r].pc = "finally"
    /\ proc' = [proc EXCEPT ![r] = Ended(@, @.outcome, @.exit)]
    /\ prev' = Summary(proc[r])
    /\ UNCHANGED <<daoVars, dir, journalMode, probeObj, hasLedger, ledger, effects,
                   clock, gap, runs, writes>>

\* the process dies (kill, power loss): nothing of main() runs any more and
\* SQLite discards the open transaction
Crash(r) ==
    /\ Active(r)
    /\ proc' = [proc EXCEPT ![r] = Ended(@, "crashed", 137)]
    /\ prev' = [Summary(proc[r]) EXCEPT !.outcome = "crashed"]
    /\ UNCHANGED <<daoVars, dir, journalMode, probeObj, hasLedger, ledger, effects,
                   clock, gap, runs, writes>>

\* somebody adds, edits or removes a change-set file between two runs
WriteFile ==
    /\ \A r \in Runners : ~Active(r)
    /\ writes < MaxWrites
    /\ runs > 0 /\ runs < MaxRuns
    /\ \E n \in Migrations, c \in Scripts \cup {Absent} :
          /\ dir[n] # c
          /\ dir' = [dir EXCEPT ![n] = c]
          /\ gap' = IF /\ gap = "clean"
                        /\ prev.outcome = "exec_failure"
                        /\ prev.failed = n
                        /\ c = ValidScript
                     THEN "fixed" ELSE "other"
    /\ writes' = writes + 1
    /\ UNCHANGED <<daoVars, journalMode, probeObj, hasLedger, ledger, effects, clock,
                   proc, prev, runs>>

Step(r) ==
    \/ StartRun(r)
    \/ set_performance_pragmas(r)
    \/ ProbeCreate(r)
    \/ ProbeDrop(r)
    \/ ensure_schema_migrations(r)
    \/ GetApplied(r)
    \/ iter_sql_files(r)
    \/ Classify(r)
    \/ Plan(r)
    \/ ExecuteScript(r)
    \/ ExecStmt(r)
    \/ InsertLedger(r)
    \/ Commit(r)
    \/ Success(r)
    \/ Finally(r)
    \/ Crash(r)

Next ==
    \/ \E r \in SeqRunners : Step(r)
    \/ WriteFile

Spec == Init /\ [][Next]_vars

\* ------------------------------------------------ vocabulary of claims
\* some / all statements of change-set n are durably in the store
SomeCommitted(n) == \E i \in StmtPos : effects[n][i] > 0
AllCommitted(n) == \A i \in StmtPos : effects[n][i] > 0

\* the run of r has ended its try block: the exit status is decided
Exiting(r) == proc[r].pc = "finally"

\* the source holds a change-set whose ledger entry, as it was when the
\* run started, carries another fingerprint
DriftInSource(r) ==
    \E n \in Names :
        /\ dir[n] # Absent /\ IsSqlFile(n)
        /\ \E i \in DOMAIN proc[r].store0.ledger :
              /\ proc[r].store0.ledger[i].id = n
              /\ proc[r].store0.ledger[i].checksum # compute_checksum(dir[n])

\* --------------------------------------------------------------- claims

\* C1: when a change-set's script fails partway during apply_migration,
\* the store is exactly as it was before that change-set started.
C1_FailedChangeSetLeavesNoTrace ==
    \A r \in Runners :
        (Exiting(r) /\ proc[r].outcome = "exec_failure")
            => store = proc[r].storeK

\* C2: in every reachable state of the store a ledger entry for X exists
\* if and only if the statements of X are durably committed.
C2_LedgerIffCommitted ==
    \A n \in Names :
        /\ n \in LedgerIds(ledger) => AllCommitted(n)
        /\ SomeCommitted(n) => n \in LedgerIds(ledger)

\* C3: a run whose source holds a drifting change-set never calls
\* apply_migration, leaves ledger and change-set effects as they were, and
\* exits non-zero, whatever is pending before the drifting change-set.
C3_DriftAbortsBeforeApply ==
    \A r \in Runners :
        (Active(r) /\ DriftInSource(r)) =>
            /\ proc[r].attempted = <<>>
            /\ proc[r].txn = <<>>
            /\ ledger = proc[r].store0.ledger
            /\ effects = proc[r].store0.effects
            /\ Exiting(r) => proc[r].exit # 0

\* C3 witness: a run stopped by drift with a pending change-set already
\* classified ahead of the drifting one.
C3_Witness ==
    \E r \in Runners :
        /\ Exiting(r) /\ proc[r].outcome = "drift"
        /\ proc[r].pending # <<>>
        /\ DriftInSource(r)

\* C4: with an unchanged source, no statement of any change-set is
\* executed against the store more than once, over any sequence of runs.
C4_ExecutedAtMostOnce ==
    writes = 0 => \A n \in Names : \A i \in StmtPos : effects[n][i] <= 1

\* C5: within one run, when apply_migration has been entered for a pending
\* change-set b, every pending change-set a < b (by file name) has all its
\* statements committed and its ledger entry, with its fingerprint,
\* committed.
C5_EarlierCommittedBeforeLaterBegins ==
    \A r \in Runners :
        Active(r) =>
            LET pend == proc[r].pending
                begun == {proc[r].attempted[m] : m \in DOMAIN proc[r].attempted}
            IN  \A i, j \in DOMAIN pend :
                    (LexLess(pend[i][1], pend[j][1]) /\ pend[j][1] \in begun)
                        => /\ AllCommitted(pend[i][1])
                           /\ \E m \in DOMAIN ledger :
                                 /\ ledger[m].id = pend[i][1]
                                 /\ ledger[m].checksum =
                                        compute_checksum(pend[i][2])

\* C5 witness: the second pending change-set of a run is executing.
C5_Witness ==
    \E r \in Runners :
        /\ proc[r].pc = "stmt"
        /\ Len(proc[r].attempted) >= 2
        /\ LexLess(proc[r].attempted[1], proc[r].attempted[2])

\* C6: when the k-th pending change-set fails, the ones before it are in
\* the ledger, the failing one is not, the ones after it were not
\* attempted; and the apply run that follows the correction of the failing
\* change-set, every pending script now being valid, starts with the
\* failing change-set, applies all that is pending and succeeds.
C6_FailureThenFollowUpSucceeds ==
    \A r \in Runners :
        LET p == proc[r] IN
        /\ (Exiting(r) /\ p.outcome = "exec_failure") =>
              /\ p.attempted = SubSeq(Ids(p.pending), 1, p.k)
              /\ \A j \in 1..(p.k - 1) : p.pending[j][1] \in LedgerIds(ledger)
              /\ p.failed \notin LedgerIds(ledger)
        /\ ( /\ Exiting(r) /\ ~p.dry_run
             /\ p.gap = "fixed" /\ p.prev.mode = "apply"
             /\ p.outcome # "capability_missing"
             /\ \A j \in DOMAIN p.pending : p.pending[j][2] = ValidScript )
            => /\ p.outcome = "applied"
               /\ p.attempted = Ids(p.pending)
               /\ p.attempted # <<>> /\ p.attempted[1] = p.prev.failed

\* C7: an apply run that follows a successful apply run, the source
\* unchanged in between, has an empty pending list, never calls
\* apply_migration and leaves ledger and change-set effects as they were.
C7_SecondApplyIsNoOp ==
    \A r \in Runners :
        ( /\ Active(r) /\ ~proc[r].dry_run
          /\ proc[r].prev.mode = "apply"
          /\ proc[r].prev.outcome \in {"applied", "noop"}
          /\ proc[r].gap = "clean" )
        => /\ proc[r].pending = <<>>
           /\ proc[r].attempted = <<>>
           /\ proc[r].txn = <<>>
           /\ ledger = proc[r].store0.ledger
           /\ effects = proc[r].store0.effects
           /\ Exiting(r) => proc[r].outcome \in {"noop", "capability_missing"}

\* C7 witness: the second of two apply runs ends as a no-op after the
\* first applied something.
C7_Witness ==
    \E r \in Runners :
        /\ Exiting(r) /\ ~proc[r].dry_run /\ proc[r].outcome = "noop"
        /\ proc[r].prev.mode = "apply" /\ proc[r].prev.outcome = "applied"
        /\ proc[r].gap = "clean"
        /\ ledger # <<>>

\* C8 as stated: a dry run reports the pending ids in source order and
\* leaves ledger and schema of the store, the ledger table included, as
\* they were before the call, also on a store that was never migrated.
C8_DryRunLeavesStoreIdentical ==
    \A r \in Runners :
        (Exiting(r) /\ proc[r].outcome = "dryrun") =>
            /\ proc[r].report = Ids(proc[r].pending)
            /\ hasLedger = proc[r].store0.hasLedger
            /\ probeObj = proc[r].store0.probeObj
            /\ ledger = proc[r].store0.ledger
            /\ effects = proc[r].store0.effects

\* C8 amended: a dry run never calls apply_migration and never writes a
\* ledger row or a change-set effect; when it ends with pending
\* change-sets it has reported exactly the source files that had no
\* ledger entry, in source order, and the ledger table exists (the run
\* creates it when the store had none).
C8_DryRunKeepsLedgerAndEffects ==
    \A r \in Runners :
        (Active(r) /\ proc[r].dry_run) =>
            LET p == proc[r]
                NotInLedger(n) == n \notin LedgerIds(p.store0.ledger)
            IN  /\ p.attempted = <<>>
                /\ p.txn = <<>>
                /\ ledger = p.store0.ledger
                /\ effects = p.store0.effects
                /\ Exiting(r) =>
                      p.outcome \in {"noop", "dryrun", "drift",
                                     "capability_missing"}
                /\ (Exiting(r) /\ p.outcome \in {"noop", "dryrun"}) =>
                      /\ Ids(p.pending) = SelectSeq(p.files, NotInLedger)
                      /\ p.outcome = "dryrun" => p.report = Ids(p.pending)
                      /\ p.outcome = "noop" => p.pending = <<>>
                      /\ hasLedger

\* C8 witness: a dry run on a store that had no ledger table ends having
\* reported two or more pending change-sets.
C8_Witness ==
    \E r \in Runners :
        /\ Exiting(r) /\ proc[r].outcome = "dryrun"
        /\ Len(proc[r].report) >= 2
        /\ ~proc[r].store0.hasLedger

C10_ZeroExitMeansConsistent ==
    \A r \in Runners :
        Exiting(r) =>
            /\ proc[r].exit = 0 =>
                  proc[r].outcome \in {"noop", "dryrun", "applied"}
            /\ proc[r].outcome \in {"drift", "exec_failure"} =>
                  proc[r].exit # 0
            /\ proc[r].outcome = "applied" =>
                  proc[r].attempted = Ids(proc[r].pending)
            /\ proc[r].exit = 0 =>
                  \A n \in Names :
                      /\ SomeCommitted(n) => n \in LedgerIds(ledger)
                      /\ n \in LedgerIds(ledger) => AllCommitted(n)

\* the change-set ids of the source: the files present whose name ends in
\* ".sql" in any mix of upper and lower case
SourceIds ==
    {n \in Names :
        /\ dir[n] # Absent
        /\ Len(n) >= 4
        /\ n[Len(n) - 3] = 46
        /\ n[Len(n) - 2] \in {115, 83}
        /\ n[Len(n) - 1] \in {113, 81}
        /\ n[Len(n)] \in {108, 76}}

\* C11: after a successful apply run every change-set id of the source
\* has exactly one ledger entry, carrying the fingerprint of its content;
\* when the run started on an empty ledger, the ledger holds exactly the
\* source's ids, one entry each.
C11_SuccessfulApplyRecordsSource ==
    \A r \in Runners :
        (Exiting(r) /\ ~proc[r].dry_run /\ proc[r].exit = 0) =>
            /\ \A n \in SourceIds :
                  /\ Cardinality({i \in DOMAIN ledger : ledger[i].id = n}) = 1
                  /\ \A i \in DOMAIN ledger :
                        ledger[i].id = n =>
                            ledger[i].checksum = compute_checksum(dir[n])
            /\ proc[r].store0.ledger = <<>> =>
                  /\ LedgerIds(ledger) = SourceIds
                  /\ Len(ledger) = Cardinality(SourceIds)

\* C11 witness: an apply run on an empty store ends having applied two or
\* more change-sets.
C11_Witness ==
    \E r \in Runners :
        /\ Exiting(r) /\ proc[r].outcome = "applied"
        /\ proc[r].store0.ledger = <<>> /\ ~proc[r].store0.hasLedger
        /\ Len(ledger) >= 2

\* C14: a run that has ended has closed its connection, whatever way it
\* left main(): no-op, dry run, success, drift, failed probe or an
\* exception in apply_migration; a connection is open only while its run
\* is under way.
C14_ConnectionClosedOnEveryExit ==
    \A r \in Runners :
        /\ proc[r].pc = "done" => proc[r].conn = "closed"
        /\ proc[r].conn = "open" <=> Active(r)
        /\ proc[r].pc = "done" =>
              proc[r].outcome \in {"noop", "dryrun", "applied", "drift",
                                   "capability_missing", "exec_failure",
                                   "duplicate_key", "busy", "crashed"}

\* C14 witness: a run that left through sys.exit in the classification
\* loop has ended.
C14_Witness ==
    \E r \in Runners :
        /\ proc[r].pc = "done" /\ proc[r].outcome = "drift"
        /\ proc[r].conn = "closed"

\* the classification loop of r has run to its end
Classification_Done(r) ==
    \/ proc[r].pc = "classify" /\ proc[r].k > Len(proc[r].files)
    \/ proc[r].pc \in {"script", "stmt", "commit"}
    \/ Exiting(r) /\ proc[r].outcome \in {"noop", "dryrun", "applied",
                                            "exec_failure", "duplicate_key",
                                            "busy"}

\* C17: the pending list of a run holds exactly the source ids that had
\* no ledger entry when the run started, in strictly ascending order of
\* file name; this holds for every run, whatever earlier runs did.
C17_PendingIsSourceMinusLedger ==
    \A r \in Runners :
        Classification_Done(r) =>
            LET ids == Ids(proc[r].pending) IN
            /\ {ids[i] : i \in DOMAIN ids} =
                   SourceIds \ LedgerIds(proc[r].store0.ledger)
            /\ \A i, j \in DOMAIN ids : i < j => LexLess(ids[i], ids[j])
            /\ \A i \in DOMAIN ids : proc[r].pending[i][2] = dir[ids[i]]

\* C17 witness: a later run skips an applied change-set and lists two
\* pending ones, the upper-case name first.
C17_Witness ==
    \E r \in Runners :
        /\ Classification_Done(r)
        /\ Len(proc[r].pending) >= 2
        /\ proc[r].pending[1][1] = F_B_SQL
        /\ SourceIds \cap LedgerIds(proc[r].store0.ledger) # {}

\* C19: a source change-set without a ledger entry is pending whatever
\* ids the ledger holds, also ids that sort after it; a successful apply
\* appends the pending ids in their order to the ledger as it was; a run
\* stops for drift only on a source file whose own entry carries another
\* fingerprint, so that an entry without a source file stops nothing.
C19_ClassifiedAgainstOwnEntryOnly ==
    \A r \in Runners :
        LET p == proc[r]
            old == p.store0.ledger
        IN  /\ Classification_Done(r) =>
                  \A n \in SourceIds :
                      n \notin LedgerIds(old) =>
                          \E i \in DOMAIN p.pending : p.pending[i][1] = n
            /\ (Exiting(r) /\ p.outcome = "applied") =>
                  /\ Len(ledger) = Len(old) + Len(p.pending)
                  /\ SubSeq(ledger, 1, Len(old)) = old
                  /\ \A i \in DOMAIN p.pending :
                        ledger[Len(old) + i].id = p.pending[i][1]
            /\ (Exiting(r) /\ p.outcome = "drift") =>
                  /\ p.failed \in SourceIds
                  /\ \E i \in DOMAIN old :
                        /\ old[i].id = p.failed
                        /\ old[i].checksum # compute_checksum(dir[p.failed])

\* C19 witness: a successful apply has left a ledger whose insertion
\* order is not the order of the ids, with an entry whose file is gone.
C19_Witness ==
    \E r \in Runners :
        /\ Exiting(r) /\ proc[r].outcome = "applied"
        /\ \E i, j \in DOMAIN ledger :
              i < j /\ LexLess(ledger[j].id, ledger[i].id)
        /\ \E i \in DOMAIN ledger : dir[ledger[i].id] = Absent

\* datetime.utcnow() reads the system's real-time clock, which an operator
\* or a time-synchronisation step can set back between two reads
ClockAdjusted ==
    /\ \E now \in 0..MaxClock : now < clock /\ clock' = now
    /\ UNCHANGED <<daoVars, dir, journalMode, probeObj, hasLedger, ledger, effects,
                   proc, prev, gap, runs, writes>>

NextClock == Next \/ ClockAdjusted

\* the runs of Spec under a wall clock that is not monotonic
SpecClock == Init /\ [][NextClock]_vars

\* C20: of two ledger entries, the one inserted later carries an
\* applied_at greater than or equal to that of the one inserted earlier,
\* within one run and across runs.
C20_AppliedAtNonDecreasing ==
    \A i, j \in DOMAIN ledger :
        i < j => ledger[i].applied_at <= ledger[j].applied_at

\* ------------------------------------------------------------------ dao
\* a count that floors at zero, without the floor
max0_Identity(x) == x

\* max(0, x)
max0(x) == IF x > 0 THEN x ELSE 0

\* abs(x)
abs(x) == IF x < 0 THEN 0 - x ELSE x

RemoveAt(rows, i) == SubSeq(rows, 1, i - 1) \o SubSeq(rows, i + 1, Len(rows))

\* INSERT INTO collection_items: with the unique index in place a second
\* row for a card_id is refused (IntegrityError) and the table stays
Insert(rows, row) ==
    IF uniq_items_card /\ \E i \in DOMAIN rows : rows[i].card_id = row.card_id
    THEN rows
    ELSE Append(rows, row)

\* the table after add_to_collection(card_id, qty_nonfoil, qty_foil)
Added(rows, card_id, qty_nonfoil, qty_foil) ==
    LET hits == {i \in DOMAIN rows : rows[i].card_id = card_id} IN
    IF hits # {}
    THEN LET i == CHOOSE h \in hits : \A g \in hits : h <= g
             new_nf == max0(rows[i].qty_nonfoil + qty_nonfoil)
             new_f == max0(rows[i].qty_foil + qty_foil)
         IN  IF new_nf = 0 /\ new_f = 0
             THEN RemoveAt(rows, i)
             ELSE [rows EXCEPT ![i].qty_nonfoil = new_nf,
                               ![i].qty_foil = new_f]
    ELSE Insert(rows, [card_id |-> card_id,
                       qty_nonfoil |-> max0(qty_nonfoil),
                       qty_foil |-> max0(qty_foil)])

RECURSIVE WithoutCard(_, _)
\* DELETE FROM collection_items WHERE card_id = ?
WithoutCard(rows, card_id) ==
    IF rows = <<>> THEN <<>>
    ELSE IF Head(rows).card_id = card_id
    THEN WithoutCard(Tail(rows), card_id)
    ELSE <<Head(rows)>> \o WithoutCard(Tail(rows), card_id)

\* the table after set_collection_quantities(card_id, qty_nonfoil, qty_foil)
Set(rows, card_id, qty_nonfoil, qty_foil) ==
    LET nf == max0(qty_nonfoil)
        f == max0(qty_foil)
    IN  IF nf = 0 /\ f = 0
        THEN WithoutCard(rows, card_id)
        ELSE IF \E i \in DOMAIN rows : rows[i].card_id = card_id
        THEN [i \in DOMAIN rows |->
                 IF rows[i].card_id = card_id
                 THEN [rows[i] EXCEPT !.qty_nonfoil = nf, !.qty_foil = f]
                 ELSE rows[i]]
        ELSE Append(rows, [card_id |-> card_id, qty_nonfoil |-> nf,
                           qty_foil |-> f])

\* quantities stay within the bound of the model
InRange(rows) ==
    \A i \in DOMAIN rows :
        rows[i].qty_nonfoil <= MaxQty /\ rows[i].qty_foil <= MaxQty

\* init(), lines 27-28: thread t reads the global; nothing is locked
init_check(t) ==
    /\ thr[t].pc = "idle"
    /\ _conn = 0 =>
          opened + Cardinality({u \in Threads : thr[u].pc = "connect"})
              < MaxOpened
    /\ thr' = [thr EXCEPT ![t].pc = IF _conn # 0 THEN "return_live"
                                    ELSE "connect"]
    /\ UNCHANGED <<migVars, _conn, opened, closes, returned,
                   uniq_items_card, collection_items>>

\* init(), line 28: return _conn reads the global a second time
init_return_live(t) ==
    /\ thr[t].pc = "return_live"
    /\ returned' = returned \cup {_conn}
    /\ thr' = [thr EXCEPT ![t].pc = "idle"]
    /\ UNCHANGED <<migVars, _conn, opened, closes, uniq_items_card,
                   collection_items>>

\* init(), lines 30-42: a new connection, the PRAGMAs, the unique index
init_connect(t) ==
    /\ thr[t].pc = "connect"
    /\ opened' = opened + 1
    /\ uniq_items_card' = TRUE
    /\ thr' = [thr EXCEPT ![t].pc = "set_conn", ![t].conn = opened + 1]
    /\ UNCHANGED <<migVars, _conn, closes, returned, collection_items>>

\* init(), lines 43-44: _set_conn(conn); return conn
init_set_conn(t) ==
    /\ thr[t].pc = "set_conn"
    /\ _conn' = thr[t].conn
    /\ returned' = returned \cup {thr[t].conn}
    /\ thr' = [thr EXCEPT ![t].pc = "idle", ![t].conn = 0]
    /\ UNCHANGED <<migVars, opened, closes, uniq_items_card,
                   collection_items>>

\* close(): under _lock, closes the live connection and clears the global
close(t) ==
    /\ thr[t].pc = "idle"
    /\ _conn # 0
    /\ closes < MaxCloses
    /\ closes' = closes + 1
    /\ _conn' = 0
    /\ UNCHANGED <<migVars, opened, returned, thr, uniq_items_card,
                   collection_items>>

\* add_to_collection(): one step, the body runs under _lock; without a
\* connection _cur() raises and nothing is written
add_to_collection(t) ==
    /\ thr[t].pc = "idle"
    /\ _conn # 0
    /\ \E card_id \in Cards, qty_nonfoil \in QtyArgs, qty_foil \in QtyArgs :
          /\ collection_items' =
                 Added(collection_items, card_id, qty_nonfoil, qty_foil)
          /\ InRange(collection_items')
    /\ UNCHANGED <<migVars, _conn, opened, closes, returned, thr,
                   uniq_items_card>>

\* remove_from_collection(): add_to_collection with -abs() of each count
remove_from_collection(t) ==
    /\ thr[t].pc = "idle"
    /\ _conn # 0
    /\ \E card_id \in Cards, qty_nonfoil \in QtyArgs, qty_foil \in QtyArgs :
          collection_items' =
              Added(collection_items, card_id, 0 - abs(qty_nonfoil),
                    0 - abs(qty_foil))
    /\ UNCHANGED <<migVars, _conn, opened, closes, returned, thr,
                   uniq_items_card>>

\* set_collection_quantities(): one step under _lock
set_collection_quantities(t) ==
    /\ thr[t].pc = "idle"
    /\ _conn # 0
    /\ \E card_id \in Cards, qty_nonfoil \in QtyArgs, qty_foil \in QtyArgs :
          collection_items' =
              Set(collection_items, card_id, qty_nonfoil, qty_foil)
    /\ UNCHANGED <<migVars, _conn, opened, closes, returned, thr,
                   uniq_items_card>>

\* one step of thread t in dao
DaoStep(t) ==
    \/ init_check(t)
    \/ init_return_live(t)
    \/ init_connect(t)
    \/ init_set_conn(t)
    \/ close(t)
    \/ add_to_collection(t)
    \/ remove_from_collection(t)
    \/ set_collection_quantities(t)

NextDao == \E t \in Threads : DaoStep(t)

\* no migration source and no run: the process only uses dao
InitDao ==
    /\ Init
    /\ \A n \in Migrations : dir[n] = Absent

\* the threads of one process calling into dao
SpecDao == InitDao /\ [][NextDao]_vars

\* C15: as long as close() was not called, init() calls from any threads
\* open at most one connection and all return that connection.
C15_InitOpensOneConnection ==
    closes = 0 => opened <= 1 /\ Cardinality(returned) <= 1

\* C16: collection_items holds at most one row per card_id and no count
\* of a row is negative.
C16_OneRowPerCardCountsNonNegative ==
    /\ \A i, j \in DOMAIN collection_items :
          collection_items[i].card_id = collection_items[j].card_id => i = j
    /\ \A i \in DOMAIN collection_items :
          /\ collection_items[i].qty_nonfoil >= 0
          /\ collection_items[i].qty_foil >= 0

\* C16 witness: both cards have a row, one of them with a count brought
\* down to zero.
C16_Witness ==
    /\ Len(collection_items) = Cardinality(Cards)
    /\ \E i \in DOMAIN collection_items :
          /\ collection_items[i].qty_nonfoil = 0
          /\ collection_items[i].qty_foil = MaxQty

\* C18: no row of collection_items has both counts at zero.
C18_NoRowWithBothCountsZero ==
    \A i \in DOMAIN collection_items :
        ~(collection_items[i].qty_nonfoil = 0
          /\ collection_items[i].qty_foil = 0)

\* ------------------------------------------------- concurrent runners
\* a script whose statements can be executed any number of times
RepeatableScript == <<"insert", "insert">>

\* a process enters main() while another run may be under way: nothing
\* in main() looks for, or takes, a lock
StartConcurrentRun(r) ==
    /\ proc[r].pc \in {"idle", "done"}
    /\ runs < MaxRuns
    /\ \E d \in BOOLEAN :
          proc' = [proc EXCEPT ![r] =
                     [IdleProc EXCEPT !.pc = "pragmas", !.dry_run = d,
                                      !.conn = "open", !.prev = prev,
                                      !.gap = gap, !.store0 = store,
                                      !.outcome = "running"]]
    /\ gap' = "clean"
    /\ runs' = runs + 1
    /\ UNCHANGED <<daoVars, dir, journalMode, probeObj, hasLedger, ledger, effects,
                   clock, prev, writes>>

\* the busy timeout of the connection expires while the other process
\* still holds the write lock: OperationalError, "database is locked";
\* assert_fts5_available reports it as a missing capability
Busy(r) ==
    /\ proc[r].pc \in {"probe_create", "probe_drop", "stmt"}
    /\ WriteLocked(r)
    /\ LET p == proc[r]
       IN  proc' = [proc EXCEPT ![r] =
                      IF p.pc = "stmt"
                      THEN [Raise(p, "busy", 1)
                              EXCEPT !.failed = p.pending[p.k][1]]
                      ELSE Raise(p, "capability_missing", 1)]
    /\ UNCHANGED <<daoVars, dir, journalMode, probeObj, hasLedger, ledger, effects,
                   clock, prev, gap, runs, writes>>

ConcurrentStep(r) ==
    \/ StartConcurrentRun(r)
    \/ set_performance_pragmas(r)
    \/ ProbeCreate(r)
    \/ ProbeDrop(r)
    \/ ensure_schema_migrations(r)
    \/ GetApplied(r)
    \/ iter_sql_files(r)
    \/ Classify(r)
    \/ Plan(r)
    \/ ExecuteScript(r)
    \/ ExecStmt(r)
    \/ InsertLedger(r)
    \/ Commit(r)
    \/ Success(r)
    \/ Finally(r)
    \/ Busy(r)

NextConcurrent == \E r \in Runners : ConcurrentStep(r)

\* an empty store and a source of one or two change-sets
InitConcurrent ==
    /\ dir \in [Names -> {Absent, ValidScript, BrokenScript, RepeatableScript}]
    /\ dir[F_d_txt] = BrokenScript
    /\ dir[F_B_SQL] = Absent
    /\ dir[F_a_sql] \in {ValidScript, RepeatableScript}
    /\ dir[F_c_sql] \in {Absent, RepeatableScript}
    /\ journalMode = "delete"
    /\ probeObj = FALSE
    /\ hasLedger = FALSE
    /\ ledger = <<>>
    /\ effects = [n \in Names |-> [i \in StmtPos |-> 0]]
    /\ clock = 0
    /\ proc = [r \in Runners |-> IdleProc]
    /\ prev = NoRun
    /\ gap = "clean"
    /\ runs = 0
    /\ writes = 0
    /\ DaoInit

\* two runner processes against one store, interleaved at will
SpecConcurrent == InitConcurrent /\ [][NextConcurrent]_vars

\* C12: every step keeps the ledger's entries as they are and in place,
\* adding at its end at most, and never leaves two entries with one id;
\* so an insert of an id that is present changes nothing.
C12_LedgerAppendOnlyUniqueIds ==
    [][/\ Len(ledger') >= Len(ledger)
       /\ SubSeq(ledger', 1, Len(ledger)) = ledger
       /\ \A i, j \in DOMAIN ledger' :
             ledger'[i].id = ledger'[j].id => i = j]_vars

\* C12 witness: a runner's insert of an id that is present has failed
C12_Witness ==
    \E r \in Runners :
        /\ Exiting(r) /\ proc[r].outcome = "duplicate_key"
        /\ \E i \in DOMAIN ledger : ledger[i].id = proc[r].failed

\* runner r stands before the ledger insert of an id that another runner
\* has recorded
AtInsertOfRecorded(r) ==
    /\ proc[r].pc = "stmt"
    /\ proc[r].s > Len(proc[r].pending[proc[r].k][2])
    /\ proc[r].pending[proc[r].k][1] \in LedgerIds(ledger)

\* C13: a runner that has executed a change-set which another runner has
\* recorded in the meantime fails at its ledger insert and ends with a
\* non-zero exit status, the statements having run twice.
C13_SecondRecorderFails ==
    [][\A r \in Runners :
          (AtInsertOfRecorded(r) /\ proc'[r] # proc[r]) =>
              /\ proc'[r].pc = "finally"
              /\ proc'[r].outcome \in {"duplicate_key", "busy"}
              /\ proc'[r].exit # 0
              /\ \A s \in DOMAIN proc[r].pending[proc[r].k][2] :
                    effects[proc[r].pending[proc[r].k][1]][s] >= 2]_vars

\* C13 witness: both runners read an empty ledger, both executed the
\* change-set, its statements have run twice and the second recorder has
\* failed at its insert.
C13_Witness ==
    \E r \in Runners, q \in Runners :
        /\ r # q
        /\ Exiting(r) /\ proc[r].outcome = "duplicate_key"
        /\ proc[r].exit # 0
        /\ proc[r].applied = <<>> /\ proc[q].applied = <<>>
        /\ Active(q) /\ proc[r].failed = proc[q].attempted[1]
        /\ proc[r].store0.ledger = <<>> /\ proc[q].store0.ledger = <<>>
        /\ \A s \in DOMAIN dir[proc[r].failed] :
              effects[proc[r].failed][s] = 2

====
